---- MODULE Spec2Model ----
(***************************************************************************)
(* pg_control_editor: reads the control record pg_control of an input data *)
(* directory, applies the overrides given on the command line, and writes  *)
(* the record to <output directory>/global/pg_control.                     *)
(*                                                                         *)
(* The model follows main() of src/pg_control_editor.c: the getopt loop    *)
(* (one action per option letter), the argument checks, read_controlfile,  *)
(* the override block, make_datadir_out_if_not_exists (one action per      *)
(* system call) and update_controlfile.                                    *)
(*                                                                         *)
(* uint32 quantities are kept modulo 2^UintBits.  The macros and functions *)
(* of the PostgreSQL headers and of libpgcommon that main() uses           *)
(* (TransactionIdIsNormal, IsValidWalSegSize, XLogFromFileName,            *)
(* FullTransactionIdFromEpochAndXid, COMP_CRC32C, update_controlfile, ...) *)
(* are modelled by what they compute, at the place where main() uses them. *)
(***************************************************************************)
EXTENDS Integers, Sequences, FiniteSets, TLC

VARIABLES
    pc,                        \* position in main(): a stage, "done" or "exit"
    exitCode,                  \* process exit status (-1 while running)
    errKind,                   \* "none", "usage", "input" or "io"
    errAt,                     \* the check or call that ended the run with an error
    given,                     \* option letters getopt_long has delivered
    DataDirIn,
    DataDirOut,
    set_oid,
    set_xid,
    set_mxid,
    set_oldestmxid,
    set_mxoff,
    set_oldest_commit_ts_xid,
    set_newest_commit_ts_xid,
    set_oldest_xid,
    set_xid_epoch,
    set_wal_segsize,
    log_fname,
    WalSegSz,
    minXlogTli,
    minXlogSegNo,
    guessed,
    ControlFile,
    fs,                        \* the file system: directory name -> its state
    fs0                        \* the file system when the process started

vars == <<pc, exitCode, errKind, errAt, given, DataDirIn, DataDirOut, set_oid,
          set_xid, set_mxid, set_oldestmxid, set_mxoff,
          set_oldest_commit_ts_xid, set_newest_commit_ts_xid, set_oldest_xid,
          set_xid_epoch, set_wal_segsize, log_fname, WalSegSz, minXlogTli,
          minXlogSegNo, guessed, ControlFile, fs, fs0>>

opts == <<given, DataDirIn, DataDirOut, set_oid, set_xid, set_mxid,
          set_oldestmxid, set_mxoff, set_oldest_commit_ts_xid,
          set_newest_commit_ts_xid, set_oldest_xid, set_xid_epoch,
          set_wal_segsize, log_fname>>

(***************************************************************************)
(* Bounds of the model.                                                    *)
(***************************************************************************)
\* width of a uint32 in the model (32 in the program)
UintBits == 5
\* number of distinct checksum values in the model (2^32 in the program)
CrcModulus == 251
\* time(NULL) returns a value in 0..MaxTime
MaxTime == 1
\* the command line names at most MaxOptions different options
MaxOptions == 4

(***************************************************************************)
(* Constants of the program and of the PostgreSQL headers it includes.     *)
(***************************************************************************)
PG_CONTROL_FILE_SIZE == 8192
SizeofControlFileData == 296
PG_CONTROL_VERSION == 1300
InvalidOid == 0
InvalidTransactionId == 0
FirstNormalTransactionId == 3
FirstMultiXactId == 1
XLOG_FNAME_LEN == 24
WalSegMinSize == 1048576
WalSegMaxSize == 1073741824
NULL == "NULL"
ERANGE == 34

RECURSIVE Pow2(_)
Pow2(n) == IF n = 0 THEN 1 ELSE 2 * Pow2(n - 1)

UINT32_MOD == Pow2(UintBits)
\* (uint32) -1
UINT32_MAX == UINT32_MOD - 1
\* assignment of an unsigned long to a uint32 variable
Uint32(v) == v % UINT32_MOD

(***************************************************************************)
(* Transaction ids.                                                        *)
(***************************************************************************)
\* variant: only the invalid id is refused
TransactionIdIsAny(xid) == xid # InvalidTransactionId
TransactionIdIsNormal(xid) == xid >= FirstNormalTransactionId

\* the -c test: nonzero and below FirstNormalTransactionId is refused
CommitTsXidIsBad(xid) ==
    xid < FirstNormalTransactionId /\ xid # InvalidTransactionId

EpochFromFullTransactionId(x) == x \div UINT32_MOD
XidFromFullTransactionId(x) == x % UINT32_MOD
FullTransactionIdFromEpochAndXid(epoch, xid) == epoch * UINT32_MOD + xid

(***************************************************************************)
(* WAL segment sizes and WAL file names.                                   *)
(***************************************************************************)
RECURSIVE IsPowerOf2(_)
IsPowerOf2(x) ==
    IF x <= 0 THEN FALSE
    ELSE IF x = 1 THEN TRUE
    ELSE IF x % 2 = 1 THEN FALSE
    ELSE IsPowerOf2(x \div 2)

IsValidWalSegSize(size) ==
    IsPowerOf2(size) /\ size >= WalSegMinSize /\ size <= WalSegMaxSize

\* the accept set of the strspn call, character by character
HexAccept == <<"0", "1", "2", "3", "4", "5", "6", "7", "8", "9", "0",
               "A", "B", "C", "D", "E", "F", "a", "b", "c", "d", "e", "f">>

InAccept(ch) == \E i \in 1..Len(HexAccept) : HexAccept[i] = ch

\* strspn(s, accept): length of the longest prefix made of accepted characters
RECURSIVE strspn(_)
strspn(s) ==
    IF s = <<>> THEN 0
    ELSE IF InAccept(Head(s)) THEN 1 + strspn(Tail(s))
    ELSE 0

\* the test of case 'l': the argument is kept when this holds
WalNameFormatOk(s) == strspn(s) = XLOG_FNAME_LEN

HexDigitValue(ch) ==
    CASE ch = "0" -> 0 [] ch = "1" -> 1 [] ch = "2" -> 2 [] ch = "3" -> 3
      [] ch = "4" -> 4 [] ch = "5" -> 5 [] ch = "6" -> 6 [] ch = "7" -> 7
      [] ch = "8" -> 8 [] ch = "9" -> 9
      [] ch \in {"A", "a"} -> 10 [] ch \in {"B", "b"} -> 11
      [] ch \in {"C", "c"} -> 12 [] ch \in {"D", "d"} -> 13
      [] ch \in {"E", "e"} -> 14 [] ch \in {"F", "f"} -> 15

\* sscanf "%08X" on the characters s[from .. from+7]
RECURSIVE ScanHex(_, _, _)
ScanHex(s, from, n) ==
    IF n = 0 THEN 0
    ELSE ScanHex(s, from, n - 1) * 16 + HexDigitValue(s[from + n - 1])

\* 0x100000000 / wal_segsz_bytes, written with numbers below 2^31
XLogSegmentsPerXLogId(wal_segsz_bytes) ==
    (WalSegMaxSize \div wal_segsz_bytes) * 4

\* XLogFromFileName(fname, &tli, &logSegNo, wal_segsz_bytes)
XLogFromFileName(fname, wal_segsz_bytes) ==
    [tli |-> ScanHex(fname, 1, 8),
     logSegNo |-> ScanHex(fname, 9, 8) * XLogSegmentsPerXLogId(wal_segsz_bytes)
                  + ScanHex(fname, 17, 8)]

(***************************************************************************)
(* The control record (ControlFileData), in the order of its fields.       *)
(* system_identifier stands for the fields before checkPointCopy that the  *)
(* program never assigns, redo for the WAL position of the checkpoint.     *)
(***************************************************************************)
BaseCheckPoint ==
    [redo |-> 1, ThisTimeLineID |-> 1, PrevTimeLineID |-> 1,
     nextXid |-> FullTransactionIdFromEpochAndXid(1, 8), nextOid |-> 10,
     nextMulti |-> 5, nextMultiOffset |-> 3, oldestXid |-> 3,
     oldestXidDB |-> 1, oldestMulti |-> 2, oldestMultiDB |-> 1,
     oldestCommitTsXid |-> 4, newestCommitTsXid |-> 8]

\* a record whose ids are special ones and whose timeline is already high
OddCheckPoint ==
    [redo |-> 2, ThisTimeLineID |-> 3, PrevTimeLineID |-> 2,
     nextXid |-> FullTransactionIdFromEpochAndXid(0, 1), nextOid |-> 11,
     nextMulti |-> 1, nextMultiOffset |-> 0, oldestXid |-> 2,
     oldestXidDB |-> 1, oldestMulti |-> 1, oldestMultiDB |-> 1,
     oldestCommitTsXid |-> 1, newestCommitTsXid |-> 0]

ZeroCheckPoint ==
    [redo |-> 0, ThisTimeLineID |-> 0, PrevTimeLineID |-> 0,
     nextXid |-> 0, nextOid |-> 0, nextMulti |-> 0, nextMultiOffset |-> 0,
     oldestXid |-> 0, oldestXidDB |-> 0, oldestMulti |-> 0,
     oldestMultiDB |-> 0, oldestCommitTsXid |-> 0, newestCommitTsXid |-> 0]

\* static ControlFileData ControlFile: zero-initialised
ZeroControlFile ==
    [system_identifier |-> 0, pg_control_version |-> 0, time |-> 0,
     checkPointCopy |-> ZeroCheckPoint, xlog_seg_size |-> 0, crc |-> 0]

\* the bytes before the crc field, as the sequence of the field values
BytesBeforeCrc(cf) ==
    LET cp == cf.checkPointCopy IN
    <<cf.system_identifier, cf.pg_control_version, cf.time, cp.redo,
      cp.ThisTimeLineID, cp.PrevTimeLineID, cp.nextXid, cp.nextOid,
      cp.nextMulti, cp.nextMultiOffset, cp.oldestXid, cp.oldestXidDB,
      cp.oldestMulti, cp.oldestMultiDB, cp.oldestCommitTsXid,
      cp.newestCommitTsXid, cf.xlog_seg_size>>

\* INIT_CRC32C; COMP_CRC32C(crc, buffer, offsetof(ControlFileData, crc));
\* FIN_CRC32C: a checksum of the bytes before the crc field
RECURSIVE COMP_CRC32C(_, _)
COMP_CRC32C(crc, bytes) ==
    IF bytes = <<>> THEN crc
    ELSE COMP_CRC32C((crc * 7 + Head(bytes) + 1) % CrcModulus, Tail(bytes))

Checksum(cf) == COMP_CRC32C(1, BytesBeforeCrc(cf))

EQ_CRC32C(c1, c2) == c1 = c2

Sealed(cf) == [cf EXCEPT !.crc = Checksum(cf)]
Damaged(cf) == [cf EXCEPT !.crc = (Checksum(cf) + 1) % CrcModulus]

MakeRecord(cp, version, segsize) ==
    [system_identifier |-> 77, pg_control_version |-> version, time |-> 0,
     checkPointCopy |-> cp, xlog_seg_size |-> segsize, crc |-> 0]

\* log_fname == NULL
NULL_fname == <<NULL>>

(***************************************************************************)
(* The file system.  A directory is absent, or present with or without its *)
(* subdirectory global, which holds the file pg_control or not.  A file is *)
(* its length and the control record its first bytes hold.                 *)
(***************************************************************************)
Dirs == {"a", "b"}

MkFile(len, rec) == [len |-> len, rec |-> rec]
\* no file of that name
NoFile == MkFile(-1, ZeroControlFile)

\* record files of the input directory "a"
BaseFile ==
    MkFile(PG_CONTROL_FILE_SIZE,
           Sealed(MakeRecord(BaseCheckPoint, PG_CONTROL_VERSION, 16 * WalSegMinSize)))
\* its stored checksum does not match
DamagedFile ==
    MkFile(PG_CONTROL_FILE_SIZE,
           Damaged(MakeRecord(BaseCheckPoint, PG_CONTROL_VERSION, 16 * WalSegMinSize)))
OddFile ==
    MkFile(PG_CONTROL_FILE_SIZE,
           Sealed(MakeRecord(OddCheckPoint, PG_CONTROL_VERSION, 16 * WalSegMinSize)))
WrongVersionFile ==
    MkFile(PG_CONTROL_FILE_SIZE,
           Sealed(MakeRecord(BaseCheckPoint, PG_CONTROL_VERSION - 1, 16 * WalSegMinSize)))
\* shorter than the record
ShortFile ==
    MkFile(SizeofControlFileData - 1,
           Sealed(MakeRecord(BaseCheckPoint, PG_CONTROL_VERSION, 16 * WalSegMinSize)))
\* 3 MiB is no power of two
BadSegSizeFile ==
    MkFile(PG_CONTROL_FILE_SIZE,
           Sealed(MakeRecord(BaseCheckPoint, PG_CONTROL_VERSION, 3 * WalSegMinSize)))

\* the record file a previous run left in the output directory "b"
StaleFile ==
    MkFile(PG_CONTROL_FILE_SIZE,
           Sealed(MakeRecord([BaseCheckPoint EXCEPT !.nextOid = 20],
                             PG_CONTROL_VERSION, 16 * WalSegMinSize)))

AbsentDir == [exists |-> FALSE, global |-> FALSE, file |-> NoFile]
EmptyDir == [exists |-> TRUE, global |-> FALSE, file |-> NoFile]
DirWithGlobal == [exists |-> TRUE, global |-> TRUE, file |-> NoFile]
DirWithFile(f) == [exists |-> TRUE, global |-> TRUE, file |-> f]

\* the file systems a run starts in: <<pg_control of "a", state of "b">>
InitialFileSystems ==
    { <<BaseFile, AbsentDir>>, <<BaseFile, EmptyDir>>,
      <<BaseFile, DirWithGlobal>>, <<BaseFile, DirWithFile(StaleFile)>>,
      <<DamagedFile, AbsentDir>>, <<DamagedFile, DirWithFile(StaleFile)>>,
      <<OddFile, AbsentDir>>, <<WrongVersionFile, AbsentDir>>,
      <<ShortFile, DirWithGlobal>>, <<BadSegSizeFile, EmptyDir>> }

(***************************************************************************)
(* The order of the steps of main().                                       *)
(***************************************************************************)
\* variant: the output location is prepared before the input is read
MainSequenceMaterializeFirst ==
    <<"getopt", "mkdir", "mkglobal", "create", "read", "apply", "update">>
MainSequence ==
    <<"getopt", "read", "apply", "mkdir", "mkglobal", "create", "update">>

StageAfter(stage) ==
    LET i == CHOOSE k \in 1..Len(MainSequence) : MainSequence[k] = stage
    IN  IF i = Len(MainSequence) THEN "done" ELSE MainSequence[i + 1]

Init ==
    /\ pc = "getopt"
    /\ exitCode = -1
    /\ errKind = "none"
    /\ errAt = "none"
    /\ given = {}
    /\ DataDirIn = NULL
    /\ DataDirOut = NULL
    /\ set_oid = 0
    /\ set_xid = 0
    /\ set_mxid = 0
    /\ set_oldestmxid = 0
    /\ set_mxoff = UINT32_MAX
    /\ set_oldest_commit_ts_xid = 0
    /\ set_newest_commit_ts_xid = 0
    /\ set_oldest_xid = 0
    /\ set_xid_epoch = UINT32_MAX
    /\ set_wal_segsize = 0
    /\ log_fname = NULL_fname
    /\ WalSegSz = 0
    /\ minXlogTli = 0
    /\ minXlogSegNo = 0
    /\ guessed = FALSE
    /\ ControlFile = ZeroControlFile
    /\ \E i \in InitialFileSystems :
          fs = [d \in Dirs |-> IF d = "a" THEN DirWithFile(i[1]) ELSE i[2]]
    /\ fs0 = fs

\* exit(1) / pg_fatal: the process ends, nothing else changes
Exit(kind, at) ==
    /\ errKind' = kind
    /\ errAt' = at
    /\ exitCode' = 1
    /\ pc' = "exit"

Continue == UNCHANGED <<pc, exitCode, errKind, errAt>>

\* getopt_long delivers option c: the loop is at it and argv holds it
Getopt(c) ==
    /\ pc = "getopt"
    /\ Cardinality(given \cup {c}) <= MaxOptions
    /\ given' = given \cup {c}

run == <<WalSegSz, minXlogTli, minXlogSegNo, guessed, ControlFile, fs, fs0>>

\* argv[1] is --help or -?: usage(); exit(0);
Help ==
    /\ pc = "getopt"
    /\ given = {}
    /\ pc' = "exit"
    /\ exitCode' = 0
    /\ errAt' = "help"
    /\ UNCHANGED errKind
    /\ UNCHANGED <<given, DataDirIn, DataDirOut, set_oid, set_xid, set_mxid,
                   set_oldestmxid, set_mxoff, set_oldest_commit_ts_xid,
                   set_newest_commit_ts_xid, set_oldest_xid, set_xid_epoch,
                   set_wal_segsize, log_fname>>
    /\ UNCHANGED <<WalSegSz, minXlogTli, minXlogSegNo, guessed, ControlFile,
                   fs, fs0>>

(***************************************************************************)
(* The getopt_long loop: one action per case of the switch.                *)
(***************************************************************************)
\* what strtoul leaves behind: the value, where endptr points, and errno
StrtoulResult(val, end, errno) == [val |-> val, end |-> end, errno |-> errno]
Parsed(val) == StrtoulResult(val, "nul", 0)

\* endptr == optarg || *endptr != '\0' || errno != 0
NotANumber(r) == r.end # "nul" \/ r.errno # 0
\* endptr == optarg || *endptr != ',' || errno != 0
NotAFirstNumber(r) == r.end # "comma" \/ r.errno # 0

Malformed == {StrtoulResult(0, "none", 0), StrtoulResult(6, "junk", 0),
              StrtoulResult(UINT32_MAX, "nul", ERANGE)}

OidArgs == {Parsed(5), Parsed(0), Parsed(UINT32_MOD)} \cup Malformed
XidArgs == {Parsed(7), Parsed(0), Parsed(1), Parsed(2), Parsed(UINT32_MOD + 1)}
             \cup {StrtoulResult(6, "junk", 0)}
OldestXidArgs == {Parsed(4), Parsed(0), Parsed(2)} \cup {StrtoulResult(6, "junk", 0)}
EpochArgs == {Parsed(2), Parsed(UINT32_MAX), Parsed(UINT32_MOD + UINT32_MAX)}
               \cup {StrtoulResult(0, "none", 0)}
MxoffArgs == {Parsed(9), Parsed(UINT32_MAX)} \cup {StrtoulResult(6, "junk", 0)}
FirstOf(vals) == {StrtoulResult(v, "comma", 0) : v \in vals}
                   \cup {StrtoulResult(6, "nul", 0)}
MxidPairs ==
    (FirstOf({4, 0}) \X {Parsed(1), Parsed(0), StrtoulResult(0, "none", 0)})
      \cup {<<StrtoulResult(6, "comma", 0), Parsed(3)>>}
CommitTsPairs ==
    FirstOf({0, 6, 1}) \X {Parsed(0), Parsed(6), Parsed(2), StrtoulResult(6, "junk", 0)}

Opt_D(dir) ==
    /\ Getopt("D")
    /\ DataDirIn' = dir
    /\ Continue
    /\ UNCHANGED <<DataDirOut, set_oid, set_xid, set_mxid, set_oldestmxid,
                   set_mxoff, set_oldest_commit_ts_xid,
                   set_newest_commit_ts_xid, set_oldest_xid, set_xid_epoch,
                   set_wal_segsize, log_fname>>
    /\ UNCHANGED run

Opt_d(dir) ==
    /\ Getopt("d")
    /\ DataDirOut' = dir
    /\ Continue
    /\ UNCHANGED <<DataDirIn, set_oid, set_xid, set_mxid, set_oldestmxid,
                   set_mxoff, set_oldest_commit_ts_xid,
                   set_newest_commit_ts_xid, set_oldest_xid, set_xid_epoch,
                   set_wal_segsize, log_fname>>
    /\ UNCHANGED run

Opt_o(r) ==
    /\ Getopt("o")
    /\ set_oid' = Uint32(r.val)
    /\ IF NotANumber(r) \/ set_oid' = 0 THEN Exit("usage", "getopt") ELSE Continue
    /\ UNCHANGED <<DataDirIn, DataDirOut, set_xid, set_mxid, set_oldestmxid,
                   set_mxoff, set_oldest_commit_ts_xid,
                   set_newest_commit_ts_xid, set_oldest_xid, set_xid_epoch,
                   set_wal_segsize, log_fname>>
    /\ UNCHANGED run

Opt_x(r) ==
    /\ Getopt("x")
    /\ set_xid' = Uint32(r.val)
    /\ IF NotANumber(r) \/ ~TransactionIdIsNormal(set_xid')
       THEN Exit("usage", "getopt") ELSE Continue
    /\ UNCHANGED <<DataDirIn, DataDirOut, set_oid, set_mxid, set_oldestmxid,
                   set_mxoff, set_oldest_commit_ts_xid,
                   set_newest_commit_ts_xid, set_oldest_xid, set_xid_epoch,
                   set_wal_segsize, log_fname>>
    /\ UNCHANGED run

\* set_mxid == 0, then set_oldestmxid == 0: pg_fatal
MxidPairRefused(mxid, oldestmxid) == mxid = 0 \/ oldestmxid = 0

Opt_m(r1, r2) ==
    /\ Getopt("m")
    /\ set_mxid' = Uint32(r1.val)
    /\ IF NotAFirstNumber(r1)
       THEN Exit("usage", "getopt") /\ UNCHANGED set_oldestmxid
       ELSE /\ set_oldestmxid' = Uint32(r2.val)
            /\ IF NotANumber(r2) \/ MxidPairRefused(set_mxid', set_oldestmxid')
               THEN Exit("usage", "getopt") ELSE Continue
    /\ UNCHANGED <<DataDirIn, DataDirOut, set_oid, set_xid, set_mxoff,
                   set_oldest_commit_ts_xid, set_newest_commit_ts_xid,
                   set_oldest_xid, set_xid_epoch, set_wal_segsize, log_fname>>
    /\ UNCHANGED run

Opt_O(r) ==
    /\ Getopt("O")
    /\ set_mxoff' = Uint32(r.val)
    /\ IF NotANumber(r) \/ set_mxoff' = UINT32_MAX
       THEN Exit("usage", "getopt") ELSE Continue
    /\ UNCHANGED <<DataDirIn, DataDirOut, set_oid, set_xid, set_mxid,
                   set_oldestmxid, set_oldest_commit_ts_xid,
                   set_newest_commit_ts_xid, set_oldest_xid, set_xid_epoch,
                   set_wal_segsize, log_fname>>
    /\ UNCHANGED run

Opt_c(r1, r2) ==
    /\ Getopt("c")
    /\ set_oldest_commit_ts_xid' = Uint32(r1.val)
    /\ IF NotAFirstNumber(r1)
       THEN Exit("usage", "getopt") /\ UNCHANGED set_newest_commit_ts_xid
       ELSE /\ set_newest_commit_ts_xid' = Uint32(r2.val)
            /\ IF \/ NotANumber(r2)
                  \/ CommitTsXidIsBad(set_oldest_commit_ts_xid')
                  \/ CommitTsXidIsBad(set_newest_commit_ts_xid')
               THEN Exit("usage", "getopt") ELSE Continue
    /\ UNCHANGED <<DataDirIn, DataDirOut, set_oid, set_xid, set_mxid,
                   set_oldestmxid, set_mxoff, set_oldest_xid, set_xid_epoch,
                   set_wal_segsize, log_fname>>
    /\ UNCHANGED run

Opt_e(r) ==
    /\ Getopt("e")
    /\ set_xid_epoch' = Uint32(r.val)
    /\ IF NotANumber(r) \/ set_xid_epoch' = UINT32_MAX
       THEN Exit("usage", "getopt") ELSE Continue
    /\ UNCHANGED <<DataDirIn, DataDirOut, set_oid, set_xid, set_mxid,
                   set_oldestmxid, set_mxoff, set_oldest_commit_ts_xid,
                   set_newest_commit_ts_xid, set_oldest_xid, set_wal_segsize,
                   log_fname>>
    /\ UNCHANGED run

Opt_u(r) ==
    /\ Getopt("u")
    /\ set_oldest_xid' = Uint32(r.val)
    /\ IF NotANumber(r) \/ ~TransactionIdIsNormal(set_oldest_xid')
       THEN Exit("usage", "getopt") ELSE Continue
    /\ UNCHANGED <<DataDirIn, DataDirOut, set_oid, set_xid, set_mxid,
                   set_oldestmxid, set_mxoff, set_oldest_commit_ts_xid,
                   set_newest_commit_ts_xid, set_xid_epoch, set_wal_segsize,
                   log_fname>>
    /\ UNCHANGED run

\* WAL file names, character by character
Zeros(n) == [i \in 1..n |-> "0"]
WalName(tli, log, seg) == Zeros(7) \o <<tli>> \o Zeros(7) \o <<log>> \o Zeros(7) \o <<seg>>

WalNameArgs ==
    { WalName("2", "0", "1"),                         \* a segment file name
      WalName("5", "1", "A") \o <<".", "p">>,         \* one with a suffix
      WalName("4", "0", "1") \o <<"0">>,              \* 25 hexadecimal characters
      Zeros(23),                                      \* 23 hexadecimal characters
      Zeros(11) \o <<"g">> \o Zeros(12),              \* a letter that is no digit
      <<>> }

Opt_l(arg) ==
    /\ Getopt("l")
    /\ IF ~WalNameFormatOk(arg)
       THEN Exit("usage", "getopt") /\ UNCHANGED log_fname
       ELSE log_fname' = arg /\ Continue
    /\ UNCHANGED <<DataDirIn, DataDirOut, set_oid, set_xid, set_mxid,
                   set_oldestmxid, set_mxoff, set_oldest_commit_ts_xid,
                   set_newest_commit_ts_xid, set_oldest_xid, set_xid_epoch,
                   set_wal_segsize>>
    /\ UNCHANGED run

\* option_parse_int(optarg, "--wal-segsize", 1, 1024, &wal_segsize_mb)
option_parse_int(r, min, max) == ~NotANumber(r) /\ r.val >= min /\ r.val <= max

SegsizeArgs == {Parsed(1), Parsed(0), Parsed(3), Parsed(1025)}
                 \cup {StrtoulResult(6, "junk", 0)}

Opt_wal_segsize(r) ==
    /\ Getopt("wal-segsize")
    /\ IF ~option_parse_int(r, 1, 1024)
       THEN Exit("usage", "getopt") /\ UNCHANGED set_wal_segsize
       ELSE /\ set_wal_segsize' = r.val * 1024 * 1024
            /\ IF ~IsValidWalSegSize(set_wal_segsize')
               THEN Exit("usage", "getopt") ELSE Continue
    /\ UNCHANGED <<DataDirIn, DataDirOut, set_oid, set_xid, set_mxid,
                   set_oldestmxid, set_mxoff, set_oldest_commit_ts_xid,
                   set_newest_commit_ts_xid, set_oldest_xid, set_xid_epoch,
                   log_fname>>
    /\ UNCHANGED run

\* default: an option getopt_long does not know
Opt_default ==
    /\ pc = "getopt"
    /\ Exit("usage", "getopt")
    /\ UNCHANGED opts
    /\ UNCHANGED run

\* getopt_long returned -1: the checks of the remaining arguments and of the
\* two directories
CheckArguments(trailing) ==
    /\ pc = "getopt"
    /\ IF trailing \/ DataDirIn = NULL \/ DataDirOut = NULL
       THEN Exit("usage", "getopt")
       ELSE pc' = StageAfter("getopt") /\ UNCHANGED <<exitCode, errKind, errAt>>
    /\ UNCHANGED opts
    /\ UNCHANGED run

(***************************************************************************)
(* read_controlfile(DataDirIn) and the test of its result in main().       *)
(***************************************************************************)
Min(a, b) == IF a < b THEN a ELSE b
Max(a, b) == IF a > b THEN a ELSE b

\* len >= sizeof(ControlFileData) && pg_control_version == PG_CONTROL_VERSION
LooksLikeControlFile(len, rec) ==
    len >= SizeofControlFileData /\ rec.pg_control_version = PG_CONTROL_VERSION

\* variant: a record whose checksum does not match is refused
ReadResultStrict(rec) ==
    EQ_CRC32C(Checksum(rec), rec.crc) /\ IsValidWalSegSize(rec.xlog_seg_size)
\* the value read_controlfile returns once the record looks like one
ReadResult(rec) == IsValidWalSegSize(rec.xlog_seg_size)

ReadControlFile(outcome) ==
    /\ pc = "read"
    /\ LET file == fs[DataDirIn].file IN
       IF file = NoFile \/ outcome # "ok"
       THEN \* open or read failed
            /\ Exit("input", "open")
            /\ UNCHANGED <<guessed, ControlFile>>
       ELSE LET len == Min(file.len, PG_CONTROL_FILE_SIZE) IN
            IF LooksLikeControlFile(len, file.rec)
            THEN /\ guessed' = (guessed \/ ~EQ_CRC32C(Checksum(file.rec), file.rec.crc))
                 /\ ControlFile' = file.rec
                 /\ IF ReadResult(file.rec)
                    THEN pc' = StageAfter("read")
                         /\ UNCHANGED <<exitCode, errKind, errAt>>
                    ELSE Exit("input", "segsize")
            ELSE /\ Exit("input", "version")
                 /\ UNCHANGED <<guessed, ControlFile>>
    /\ UNCHANGED opts
    /\ UNCHANGED <<WalSegSz, minXlogTli, minXlogSegNo, fs, fs0>>

(***************************************************************************)
(* The override block of main(), one operator per statement.               *)
(***************************************************************************)
SetNextOid(cf, oid) ==
    IF oid # 0 THEN [cf EXCEPT !.checkPointCopy.nextOid = oid] ELSE cf

\* variant: the whole 64-bit value is replaced by the id
SetNextXidWhole(cf, xid) ==
    IF xid # 0 THEN [cf EXCEPT !.checkPointCopy.nextXid = xid] ELSE cf
SetNextXid(cf, xid) ==
    IF xid # 0
    THEN [cf EXCEPT !.checkPointCopy.nextXid =
            FullTransactionIdFromEpochAndXid(EpochFromFullTransactionId(@), xid)]
    ELSE cf

\* variant: the database of the oldest multitransaction is kept
SetMultiKeepDB(cf, mxid, oldestmxid) ==
    IF mxid # 0
    THEN [cf EXCEPT !.checkPointCopy.nextMulti = mxid,
                    !.checkPointCopy.oldestMulti =
                        IF oldestmxid < FirstMultiXactId
                        THEN Uint32(oldestmxid + FirstMultiXactId)
                        ELSE oldestmxid]
    ELSE cf
SetMulti(cf, mxid, oldestmxid) ==
    IF mxid # 0
    THEN [cf EXCEPT !.checkPointCopy.nextMulti = mxid,
                    !.checkPointCopy.oldestMulti =
                        IF oldestmxid < FirstMultiXactId
                        THEN Uint32(oldestmxid + FirstMultiXactId)
                        ELSE oldestmxid,
                    !.checkPointCopy.oldestMultiDB = InvalidOid]
    ELSE cf

SetMultiOffset(cf, mxoff) ==
    IF mxoff # UINT32_MAX
    THEN [cf EXCEPT !.checkPointCopy.nextMultiOffset = mxoff] ELSE cf

\* variant: the timeline of the file name is taken whatever the record holds
SetTimeLineAlways(cf, tli) ==
    [cf EXCEPT !.checkPointCopy.ThisTimeLineID = tli,
               !.checkPointCopy.PrevTimeLineID = tli]
SetTimeLine(cf, tli) ==
    IF tli > cf.checkPointCopy.ThisTimeLineID
    THEN [cf EXCEPT !.checkPointCopy.ThisTimeLineID = tli,
                    !.checkPointCopy.PrevTimeLineID = tli]
    ELSE cf

\* variant: both bounds are assigned whatever their value
SetCommitTsAlways(cf, oldest, newest) ==
    [cf EXCEPT !.checkPointCopy.oldestCommitTsXid = oldest,
               !.checkPointCopy.newestCommitTsXid = newest]
SetCommitTs(cf, oldest, newest) ==
    [cf EXCEPT !.checkPointCopy.oldestCommitTsXid =
                   IF oldest # 0 THEN oldest ELSE @,
               !.checkPointCopy.newestCommitTsXid =
                   IF newest # 0 THEN newest ELSE @]

SetEpoch(cf, epoch) ==
    IF epoch # UINT32_MAX
    THEN [cf EXCEPT !.checkPointCopy.nextXid =
            FullTransactionIdFromEpochAndXid(epoch, XidFromFullTransactionId(@))]
    ELSE cf

SetOldestXid(cf, xid) ==
    IF xid # 0
    THEN [cf EXCEPT !.checkPointCopy.oldestXid = xid,
                    !.checkPointCopy.oldestXidDB = InvalidOid]
    ELSE cf

SetWalSegSize(cf, segsize, walsegsz) ==
    IF segsize # 0 THEN [cf EXCEPT !.xlog_seg_size = walsegsz] ELSE cf

ApplyOverrides ==
    /\ pc = "apply"
    /\ WalSegSz' = IF set_wal_segsize # 0 THEN set_wal_segsize
                   ELSE ControlFile.xlog_seg_size
    /\ IF log_fname # NULL_fname
       THEN /\ minXlogTli' = XLogFromFileName(log_fname, WalSegSz').tli
            /\ minXlogSegNo' = XLogFromFileName(log_fname, WalSegSz').logSegNo
       ELSE UNCHANGED <<minXlogTli, minXlogSegNo>>
    /\ ControlFile' =
         SetWalSegSize(
          SetOldestXid(
           SetEpoch(
            SetCommitTs(
             SetTimeLine(
              SetMultiOffset(
               SetMulti(
                SetNextXid(
                 SetNextOid(ControlFile, set_oid),
                 set_xid),
                set_mxid, set_oldestmxid),
               set_mxoff),
              minXlogTli'),
             set_oldest_commit_ts_xid, set_newest_commit_ts_xid),
            set_xid_epoch),
           set_oldest_xid),
          set_wal_segsize, WalSegSz')
    /\ pc' = StageAfter("apply")
    /\ UNCHANGED <<exitCode, errKind, errAt>>
    /\ UNCHANGED opts
    /\ UNCHANGED <<guessed, fs, fs0>>

(***************************************************************************)
(* make_datadir_out_if_not_exists(DataDirOut), one action per system call. *)
(***************************************************************************)
\* the three tests if (errno != EEXIST) { ...; exit(1); }
MkdirFailureIsFatal(errno) == errno # "EEXIST"
MkdirGlobalFailureIsFatal(errno) == errno # "EEXIST"
\* variant: a file that is already there ends the run
CreateFailureIsFatalAlways(errno) == TRUE
CreateFailureIsFatal(errno) == errno # "EEXIST"

\* mkdir(pgdata_out, 0755)
MkdirOut(res) ==
    /\ pc = "mkdir"
    /\ LET errno == IF fs[DataDirOut].exists THEN "EEXIST" ELSE res IN
       IF errno = "ok"
       THEN /\ fs' = [fs EXCEPT ![DataDirOut].exists = TRUE]
            /\ pc' = StageAfter("mkdir")
            /\ UNCHANGED <<exitCode, errKind, errAt>>
       ELSE IF MkdirFailureIsFatal(errno)
       THEN Exit("io", "mkdir") /\ UNCHANGED fs
       ELSE /\ pc' = StageAfter("mkdir")
            /\ UNCHANGED <<exitCode, errKind, errAt, fs>>
    /\ UNCHANGED opts
    /\ UNCHANGED <<WalSegSz, minXlogTli, minXlogSegNo, guessed, ControlFile, fs0>>

\* mkdir("<pgdata_out>/global", 0755)
MkdirGlobal(res) ==
    /\ pc = "mkglobal"
    /\ LET errno == IF fs[DataDirOut].global THEN "EEXIST" ELSE res IN
       IF errno = "ok"
       THEN /\ fs' = [fs EXCEPT ![DataDirOut].global = TRUE]
            /\ pc' = StageAfter("mkglobal")
            /\ UNCHANGED <<exitCode, errKind, errAt>>
       ELSE IF MkdirGlobalFailureIsFatal(errno)
       THEN Exit("io", "mkglobal") /\ UNCHANGED fs
       ELSE /\ pc' = StageAfter("mkglobal")
            /\ UNCHANGED <<exitCode, errKind, errAt, fs>>
    /\ UNCHANGED opts
    /\ UNCHANGED <<WalSegSz, minXlogTli, minXlogSegNo, guessed, ControlFile, fs0>>

\* open("<pgdata_out>/global/pg_control", O_EXCL | O_CREAT, 0644)
CreateFile(res) ==
    /\ pc = "create"
    /\ LET errno == IF fs[DataDirOut].file # NoFile THEN "EEXIST" ELSE res IN
       IF errno = "ok"
       THEN /\ fs' = [fs EXCEPT ![DataDirOut].file = MkFile(0, ZeroControlFile)]
            /\ pc' = StageAfter("create")
            /\ UNCHANGED <<exitCode, errKind, errAt>>
       ELSE IF CreateFailureIsFatal(errno)
       THEN Exit("io", "create") /\ UNCHANGED fs
       ELSE /\ pc' = StageAfter("create")
            /\ UNCHANGED <<exitCode, errKind, errAt, fs>>
    /\ UNCHANGED opts
    /\ UNCHANGED <<WalSegSz, minXlogTli, minXlogSegNo, guessed, ControlFile, fs0>>

(***************************************************************************)
(* update_controlfile(DataDirOut, &ControlFile, false) of libpgcommon: it  *)
(* stamps the record with time(NULL), recomputes its checksum, opens the   *)
(* file O_WRONLY and writes PG_CONTROL_FILE_SIZE bytes, the record and     *)
(* zeros after it; any failure is fatal.  Then main() returns 0.           *)
(***************************************************************************)
Stamped(cf, now) == Sealed([cf EXCEPT !.time = now])

UpdateControlFile(now, res) ==
    /\ pc = "update"
    /\ ControlFile' = Stamped(ControlFile, now)
    /\ IF fs[DataDirOut].file = NoFile \/ res # "ok"
       THEN Exit("io", "update") /\ UNCHANGED fs
       ELSE /\ fs' = [fs EXCEPT ![DataDirOut].file =
                        MkFile(Max(@.len, PG_CONTROL_FILE_SIZE), ControlFile')]
            /\ pc' = StageAfter("update")
            /\ exitCode' = 0
            /\ UNCHANGED <<errKind, errAt>>
    /\ UNCHANGED opts
    /\ UNCHANGED <<WalSegSz, minXlogTli, minXlogSegNo, guessed, fs0>>

Next ==
    \/ Help
    \/ \E dir \in Dirs : Opt_D(dir)
    \/ \E dir \in Dirs : Opt_d(dir)
    \/ \E r \in OidArgs : Opt_o(r)
    \/ \E r \in XidArgs : Opt_x(r)
    \/ \E p \in MxidPairs : Opt_m(p[1], p[2])
    \/ \E r \in MxoffArgs : Opt_O(r)
    \/ \E p \in CommitTsPairs : Opt_c(p[1], p[2])
    \/ \E r \in EpochArgs : Opt_e(r)
    \/ \E arg \in WalNameArgs : Opt_l(arg)
    \/ \E r \in OldestXidArgs : Opt_u(r)
    \/ \E r \in SegsizeArgs : Opt_wal_segsize(r)
    \/ Opt_default
    \/ \E trailing \in BOOLEAN : CheckArguments(trailing)
    \/ \E outcome \in {"ok", "EACCES"} : ReadControlFile(outcome)
    \/ ApplyOverrides
    \/ \E res \in {"ok", "EACCES"} : MkdirOut(res)
    \/ \E res \in {"ok", "EACCES"} : MkdirGlobal(res)
    \/ \E res \in {"ok", "EACCES"} : CreateFile(res)
    \/ \E now \in 0..MaxTime, res \in {"ok", "EIO"} : UpdateControlFile(now, res)

Spec == Init /\ [][Next]_vars

(***************************************************************************)
(* Vocabulary of the properties.                                           *)
(***************************************************************************)
Done == pc = "done"
\* the record the input directory held when the run started
InRec == fs0[DataDirIn].file.rec
\* the record the output directory holds now
OutRec == fs[DataDirOut].file.rec
Supplied(c) == c \in given
NormalOrInvalid(xid) ==
    xid = InvalidTransactionId \/ xid >= FirstNormalTransactionId
XidsNormalOrInvalid(rec) ==
    /\ NormalOrInvalid(XidFromFullTransactionId(rec.checkPointCopy.nextXid))
    /\ NormalOrInvalid(rec.checkPointCopy.oldestXid)
    /\ NormalOrInvalid(rec.checkPointCopy.oldestCommitTsXid)
    /\ NormalOrInvalid(rec.checkPointCopy.newestCommitTsXid)
IsHexChar(ch) ==
    ch \in {"0", "1", "2", "3", "4", "5", "6", "7", "8", "9",
            "A", "B", "C", "D", "E", "F", "a", "b", "c", "d", "e", "f"}
\* the input file is long enough, of the supported version, with a valid
\* segment size
Decodable(file) ==
    /\ file # NoFile
    /\ file.len >= SizeofControlFileData
    /\ file.rec.pg_control_version = PG_CONTROL_VERSION
    /\ IsPowerOf2(file.rec.xlog_seg_size)
    /\ file.rec.xlog_seg_size >= WalSegMinSize
    /\ file.rec.xlog_seg_size <= WalSegMaxSize

(***************************************************************************)
(* C1.  Whatever the two directories are, also when both are the same one, *)
(* the record file of the input directory holds after the run the bytes it *)
(* held before it.                                                         *)
(***************************************************************************)
C1_InputFileUntouched ==
    DataDirIn # NULL => fs[DataDirIn].file = fs0[DataDirIn].file

(***************************************************************************)
(* C2.  As claimed: a record file that is in the output location when the  *)
(* run starts is unchanged when the run has ended, or the run has reported *)
(* an error.                                                               *)
(***************************************************************************)
C2_NoSilentOverwrite ==
    (pc \in {"done", "exit"} /\ DataDirOut # NULL
       /\ fs0[DataDirOut].file # NoFile)
    => (fs[DataDirOut].file = fs0[DataDirOut].file \/ errKind # "none")

(***************************************************************************)
(* C2, as amended.  A record file that is already in the output location   *)
(* is no error for the creation step, which leaves it alone; a file is     *)
(* created, empty, only where none was; and a run that ends successfully   *)
(* has replaced the content of the file, old or new, by the full encoded   *)
(* record.                                                                 *)
(***************************************************************************)
C2_ExistingFileIsOverwritten ==
    /\ (pc = "exit" /\ errAt = "create") => fs0[DataDirOut].file = NoFile
    /\ pc = "update" =>
          fs[DataDirOut].file =
             IF fs0[DataDirOut].file # NoFile THEN fs0[DataDirOut].file
             ELSE MkFile(0, ZeroControlFile)
    /\ Done => /\ errKind = "none"
               /\ fs[DataDirOut].file.rec = ControlFile
               /\ fs[DataDirOut].file.len >= PG_CONTROL_FILE_SIZE

C2_Witness ==
    /\ Done
    /\ fs0[DataDirOut].file = StaleFile
    /\ fs[DataDirOut].file # StaleFile
    /\ errKind = "none"

(***************************************************************************)
(* C3.  Every check of the arguments and of the input record comes before  *)
(* the first call that touches the output location: while the options are  *)
(* parsed, the input is read and the overrides are applied the file system *)
(* is as it was, and a run that ends with a usage or input-record error    *)
(* has created no directory and no file and has written nothing.           *)
(***************************************************************************)
C3_FailFast ==
    /\ pc \in {"getopt", "read", "apply"} => fs = fs0
    /\ (pc = "exit" /\ errKind \in {"usage", "input"}) => fs = fs0

C3_Witness ==
    /\ pc = "exit"
    /\ errKind = "input"
    /\ errAt = "version"
    /\ DataDirOut = "b"
    /\ ~fs0["b"].exists
    /\ ~fs["b"].exists

(***************************************************************************)
(* C4.  After a successful run the high half of the written                *)
(* nextFullTransactionId is the epoch given with -e, or the input record's *)
(* epoch when no -e was given, and the low half is the id given with -x,   *)
(* or the input record's id when no -x was given, in whatever order the    *)
(* two options came.                                                       *)
(***************************************************************************)
C4_EpochXidIndependence ==
    Done =>
      LET out == OutRec.checkPointCopy.nextXid
          in == InRec.checkPointCopy.nextXid
      IN /\ EpochFromFullTransactionId(out) =
               IF Supplied("e") THEN set_xid_epoch
               ELSE EpochFromFullTransactionId(in)
         /\ XidFromFullTransactionId(out) =
               IF Supplied("x") THEN set_xid
               ELSE XidFromFullTransactionId(in)

C4_Witness ==
    /\ Done
    /\ Supplied("e") /\ Supplied("x")
    /\ set_xid_epoch \notin {UINT32_MAX, EpochFromFullTransactionId(InRec.checkPointCopy.nextXid)}
    /\ set_xid # XidFromFullTransactionId(InRec.checkPointCopy.nextXid)
    /\ OutRec.checkPointCopy.nextXid =
          FullTransactionIdFromEpochAndXid(set_xid_epoch, set_xid)

(***************************************************************************)
(* C5.  As claimed: after a successful run, whatever decodable record was  *)
(* read, the written next transaction id, oldest transaction id and the    *)
(* two commit-timestamp bounds are each 0 or at least                      *)
(* FirstNormalTransactionId.                                               *)
(***************************************************************************)
C5_WrittenXidsNormal ==
    Done => XidsNormalOrInvalid(OutRec)

(***************************************************************************)
(* C5, as amended.  After a successful run each of the four ids that an    *)
(* accepted override has set is at least FirstNormalTransactionId, each of *)
(* the others is the value of the input record, and so the four are 0 or   *)
(* normal whenever those of the input record are.                          *)
(***************************************************************************)
C5_WrittenXidsNormalWhenInputIs ==
    Done =>
      LET out == OutRec.checkPointCopy
          in == InRec.checkPointCopy
      IN /\ IF Supplied("x")
            THEN XidFromFullTransactionId(out.nextXid) >= FirstNormalTransactionId
            ELSE XidFromFullTransactionId(out.nextXid) = XidFromFullTransactionId(in.nextXid)
         /\ IF Supplied("u")
            THEN out.oldestXid >= FirstNormalTransactionId
            ELSE out.oldestXid = in.oldestXid
         /\ IF set_oldest_commit_ts_xid # 0
            THEN out.oldestCommitTsXid >= FirstNormalTransactionId
            ELSE out.oldestCommitTsXid = in.oldestCommitTsXid
         /\ IF set_newest_commit_ts_xid # 0
            THEN out.newestCommitTsXid >= FirstNormalTransactionId
            ELSE out.newestCommitTsXid = in.newestCommitTsXid
         /\ XidsNormalOrInvalid(InRec) => XidsNormalOrInvalid(OutRec)

C5_Witness ==
    /\ Done
    /\ Supplied("x") /\ Supplied("u")
    /\ XidsNormalOrInvalid(InRec)
    /\ OutRec.checkPointCopy.oldestXid = set_oldest_xid
    /\ OutRec.checkPointCopy.oldestXid # InRec.checkPointCopy.oldestXid

(***************************************************************************)
(* C6.  A WAL file name is kept only if the whole argument is exactly      *)
(* XLOG_FNAME_LEN hexadecimal characters; any other argument ends the run  *)
(* with a usage error.                                                     *)
(***************************************************************************)
C6_WalNameWholeArgument ==
    log_fname # NULL_fname =>
      /\ Len(log_fname) = XLOG_FNAME_LEN
      /\ \A i \in 1..Len(log_fname) : IsHexChar(log_fname[i])

(***************************************************************************)
(* C7.  As claimed: after a successful run with -c the two written         *)
(* commit-timestamp bounds are the two values given.                       *)
(***************************************************************************)
C7_CommitTsEqualsSupplied ==
    (Done /\ Supplied("c")) =>
      /\ OutRec.checkPointCopy.oldestCommitTsXid = set_oldest_commit_ts_xid
      /\ OutRec.checkPointCopy.newestCommitTsXid = set_newest_commit_ts_xid

(***************************************************************************)
(* C7, as amended.  After a successful run each written commit-timestamp   *)
(* bound is the value given with -c when that value is not 0, and the      *)
(* value of the input record when it is 0 (zero means no change), each     *)
(* bound on its own; a value that is neither 0 nor at least                *)
(* FirstNormalTransactionId ends the run with a usage error.               *)
(***************************************************************************)
C7_CommitTsZeroMeansNoChange ==
    /\ Done =>
         /\ OutRec.checkPointCopy.oldestCommitTsXid =
               IF set_oldest_commit_ts_xid # 0 THEN set_oldest_commit_ts_xid
               ELSE InRec.checkPointCopy.oldestCommitTsXid
         /\ OutRec.checkPointCopy.newestCommitTsXid =
               IF set_newest_commit_ts_xid # 0 THEN set_newest_commit_ts_xid
               ELSE InRec.checkPointCopy.newestCommitTsXid
    /\ (~NormalOrInvalid(set_oldest_commit_ts_xid)
          \/ ~NormalOrInvalid(set_newest_commit_ts_xid))
       => (pc = "exit" /\ errKind = "usage")

C7_Witness ==
    /\ Done
    /\ Supplied("c")
    /\ set_oldest_commit_ts_xid = 0
    /\ set_newest_commit_ts_xid >= FirstNormalTransactionId
    /\ InRec.checkPointCopy.oldestCommitTsXid # 0
    /\ OutRec.checkPointCopy.oldestCommitTsXid = InRec.checkPointCopy.oldestCommitTsXid
    /\ OutRec.checkPointCopy.newestCommitTsXid = set_newest_commit_ts_xid
    /\ OutRec.checkPointCopy.newestCommitTsXid # InRec.checkPointCopy.newestCommitTsXid

(***************************************************************************)
(* C8.  After a successful run with -m the written nextMulti is the next   *)
(* value given, oldestMultiDB is InvalidOid, and oldestMulti is the oldest *)
(* value given, plus FirstMultiXactId if it is below FirstMultiXactId, and *)
(* so at least FirstMultiXactId; a next or oldest value of 0 ends the run  *)
(* with a usage error.                                                     *)
(***************************************************************************)
C8_MultiXactWraparound ==
    /\ (Done /\ Supplied("m")) =>
         LET out == OutRec.checkPointCopy IN
         /\ out.nextMulti = set_mxid
         /\ out.oldestMulti =
               IF set_oldestmxid < FirstMultiXactId
               THEN set_oldestmxid + FirstMultiXactId
               ELSE set_oldestmxid
         /\ out.oldestMulti >= FirstMultiXactId
         /\ out.oldestMultiDB = InvalidOid
    /\ (Supplied("m") /\ (set_mxid = 0 \/ set_oldestmxid = 0))
       => (pc = "exit" /\ errKind = "usage")
    \* the statements of the setter themselves, on the record in memory: the
    \* value 0, the only one below FirstMultiXactId, never comes through -m
    /\ \A oldest \in 0..3 :
          LET cp == SetMulti(ControlFile, 4, oldest).checkPointCopy IN
          /\ cp.oldestMulti = IF oldest < FirstMultiXactId
                              THEN oldest + FirstMultiXactId ELSE oldest
          /\ cp.oldestMulti >= FirstMultiXactId
          /\ cp.nextMulti = 4
          /\ cp.oldestMultiDB = InvalidOid

C8_Witness ==
    /\ Done
    /\ Supplied("m")
    /\ set_oldestmxid = FirstMultiXactId
    /\ InRec.checkPointCopy.oldestMultiDB # InvalidOid
    /\ InRec.checkPointCopy.oldestMulti # set_oldestmxid
    /\ OutRec.checkPointCopy.oldestMulti = set_oldestmxid

FrameOfCheckPoint(out, in) ==
    /\ out.redo = in.redo
    /\ Supplied("o") \/ out.nextOid = in.nextOid
    /\ Supplied("x") \/ Supplied("e") \/ out.nextXid = in.nextXid
    /\ Supplied("m") \/ /\ out.nextMulti = in.nextMulti
                        /\ out.oldestMulti = in.oldestMulti
                        /\ out.oldestMultiDB = in.oldestMultiDB
    /\ Supplied("O") \/ out.nextMultiOffset = in.nextMultiOffset
    /\ Supplied("c") \/ /\ out.oldestCommitTsXid = in.oldestCommitTsXid
                        /\ out.newestCommitTsXid = in.newestCommitTsXid
    /\ Supplied("u") \/ /\ out.oldestXid = in.oldestXid
                        /\ out.oldestXidDB = in.oldestXidDB
    /\ Supplied("l") \/ /\ out.ThisTimeLineID = in.ThisTimeLineID
                        /\ out.PrevTimeLineID = in.PrevTimeLineID

FrameOfHeader(out, in) ==
    /\ out.system_identifier = in.system_identifier
    /\ out.pg_control_version = in.pg_control_version
    /\ Supplied("wal-segsize") \/ out.xlog_seg_size = in.xlog_seg_size

====
